---- MODULE Spec2Model ----
(***************************************************************************)
(* Model of cauldron/session/writing.py: the export of a step-based        *)
(* project into its results directory (write_project), the per-step cache  *)
(* (write_step, get_cached_step_data, write_step_cache) and the resolution *)
(* of web includes and library components.                                 *)
(*                                                                         *)
(* Python strings are sequences of tokens: path separators and dots are    *)
(* tokens of their own, so that slicing, replace(), strip() and endswith() *)
(* are computed as the code computes them.  A file system is a function    *)
(* from canonical relative paths (tokens joined by "/") to file contents,  *)
(* a directory being an entry whose content is DirMark.                    *)
(***************************************************************************)
EXTENDS Integers, Sequences, FiniteSets, TLC

VARIABLES
    os_sep,        \* os.sep of the host: "/" or "\\"
    available,     \* optional libraries whose import succeeds on the host
    hollow,        \* those of them whose import leaves the locator None
    settings,      \* project.settings 'web_includes' list
    steps,         \* project.steps: the ordered sequence of step names
    step,          \* step name -> the step object's fields and its report
    out,           \* file system under project.output_directory
    cache,         \* step name -> content of step.report.results_cache_path
    results,       \* payload of the results document at project.output_path
    display,       \* content of display.html under project.results_path
    last           \* observation of the most recent call of this module: the
                   \* operation, whether it raised, its write_step calls,
                   \* the entries it wrote, the entries it found in the
                   \* output tree, and the records of the write_project
                   \* right before it

vars == <<os_sep, available, hollow, settings, steps, step, out, cache,
          results, display, last>>

----------------------------------------------------------------------------
(* Bounds *)

\* How often a report lists the library name it repeats
MaxRepeats == 2

----------------------------------------------------------------------------
(* Strings *)

Replace(s, a, b) == [i \in 1..Len(s) |-> IF s[i] = a THEN b ELSE s[i]]

StartsWith(s, p) == Len(s) >= Len(p) /\ SubSeq(s, 1, Len(p)) = p

EndsWith(s, p) ==
    Len(s) >= Len(p) /\ SubSeq(s, Len(s) - Len(p) + 1, Len(s)) = p

\* s[n:]
SliceFrom(s, n) == SubSeq(s, n + 1, Len(s))

RECURSIVE LStrip(_, _)
LStrip(s, c) ==
    IF s # <<>> /\ Head(s) = c THEN LStrip(Tail(s), c) ELSE s

RECURSIVE RStrip(_, _)
RStrip(s, c) ==
    IF s # <<>> /\ s[Len(s)] = c
    THEN RStrip(SubSeq(s, 1, Len(s) - 1), c)
    ELSE s

\* str.strip(c)
Strip(s, c) == RStrip(LStrip(s, c), c)

\* os.path.join(a, b) for a relative b
PathJoin(a, b) == a \o <<os_sep>> \o b

\* position of the last separator of s, 0 when it has none
LastSep(s) ==
    LET P == {i \in 1..Len(s) : s[i] = "/" \/ s[i] = os_sep}
    IN  IF P = {} THEN 0 ELSE CHOOSE i \in P : \A j \in P : j <= i

\* os.path.dirname
dirname(s) == SubSeq(s, 1, LastSep(s) - 1)

----------------------------------------------------------------------------
(* File systems *)

DirMark == "<dir>"

EmptyFS == [k \in {} |-> DirMark]

\* The key of a path string: the host accepts its own separator, and the file
\* system does not remember which separator the caller wrote.
Key(s) == Replace(s, os_sep, "/")

exists(fs, k) == k \in DOMAIN fs

isdir(fs, k) == k \in DOMAIN fs /\ fs[k] = DirMark

isfile(fs, k) == k \in DOMAIN fs /\ fs[k] # DirMark

Ancestors(k) == {SubSeq(k, 1, i - 1) : i \in {j \in 1..Len(k) : k[j] = "/"}}

\* os.makedirs: the directory and every missing ancestor
makedirs(fs, k) ==
    LET new == (Ancestors(k) \cup {k}) \ DOMAIN fs
    IN  [p \in DOMAIN fs \cup new |-> IF p \in new THEN DirMark ELSE fs[p]]

\* open(path, 'w+') followed by write(contents)
write(fs, k, contents) ==
    [p \in DOMAIN fs \cup {k} |-> IF p = k THEN contents ELSE fs[p]]

\* entries of fs strictly below directory k
Below(fs, k) == {p \in DOMAIN fs : StartsWith(p, k \o <<"/">>)}

\* the entries of src below sk set below dk in a tree where dk is made
Graft(src, sk, made, dk) ==
    [q \in DOMAIN made \cup {dk \o SliceFrom(p, Len(sk)) : p \in Below(src, sk)}
        |-> IF q \in DOMAIN made THEN made[q]
            ELSE src[sk \o SliceFrom(q, Len(dk))]]

\* shutil.copytree(src_k, dst_k) once dst_k is known not to exist
copytree(src, sk, fs, dk) == Graft(src, sk, makedirs(fs, dk), dk)

\* The order in which the host lists a set of entries: fixed, but arbitrary.
RECURSIVE Listing(_)
Listing(S) ==
    IF S = {} THEN <<>>
    ELSE LET x == CHOOSE y \in S : TRUE IN <<x>> \o Listing(S \ {x})

----------------------------------------------------------------------------
(* The host: the project's source directory, the bundled components and    *)
(* the paths the project object hands out.                                 *)

FSOf(pairs) ==
    [k \in {p[1] : p \in pairs} |-> (CHOOSE p \in pairs : p[1] = k)[2]]

\* project.source_directory
SourceTree ==
    FSOf({ <<(<<"lib", ".", "js">>), "lib.js">>,
           <<(<<"inc">>), DirMark>>,
           <<(<<"inc", "/", "a", ".", "css">>), "a.css">>,
           <<(<<"inc", "/", "sub">>), DirMark>>,
           <<(<<"inc", "/", "sub", "/", "b", ".", "js">>), "b.js">>,
           <<(<<"flat">>), DirMark>>,
           <<(<<"flat", "/", "x", ".", "js">>), "x.js">>,
           <<(<<"flat", "/", "y", ".", "css">>), "y.css">>,
           <<(<<"assets">>), DirMark>>,
           <<(<<"assets", "/", "logo", ".", "png">>), "logo.png">> })

\* environ.paths.resources('web', 'components'): the bundled components
ResourceTree ==
    FSOf({ <<(<<"widget">>), DirMark>>,
           <<(<<"widget", "/", "widget", ".", "js">>), "widget.js">>,
           <<(<<"widget", "/", "css">>), DirMark>>,
           <<(<<"widget", "/", "css", "/", "widget", ".", "css">>), "widget.css">>,
           <<(<<"widget", "/", "README", ".", "md">>), "readme">> })

\* project.output_directory, an absolute path
OutputDirectory == <<"<output_directory>">>

\* environ.paths.resources('web', 'components', name)
ResourcesPath(name) == <<"<components>">> \o <<os_sep>> \o <<name>>

\* the key under the output directory of an absolute path inside it
OutKey(p) ==
    IF Len(p) <= Len(OutputDirectory) THEN <<>>
    ELSE Key(SliceFrom(p, Len(OutputDirectory) + 1))

\* the path string the host gives for an entry of the output directory
OutPath(k) == OutputDirectory \o <<os_sep>> \o Replace(k, "/", os_sep)

\* project.output_path, inside the output directory
ResultsKey == <<"results", ".", "js">>

\* environ.version_info and environ.version
VersionInfo == <<0, 4, 1>>

Version == "0.4.1"

\* project.uuid
ProjectUuid == "uuid"

StepNames == {"A", "B"}

\* step.status(), opaque to this module
StatusOf(name) == <<"status", name>>

\* step.dumps(), a fresh render of the step
Dumps(name) == "rendered"

----------------------------------------------------------------------------
(* Python values and their JSON serialisation *)

None == <<>>

NoData == [k \in {} |-> 0]

\* a step record, the dict built by create_step_data
BlankRecord ==
    [name |-> "", status |-> <<>>, has_error |-> FALSE, body |-> None,
     data |-> NoData, includes |-> <<>>, cauldron_version |-> <<>>]

\* a Python value: its type, its len() and, for a step record, its items
PyNone == [type |-> "NoneType", len |-> 0, value |-> BlankRecord]

PyDict(rec) ==
    [type |-> "dict", len |-> Cardinality(DOMAIN rec), value |-> rec]

PyList(n) == [type |-> "list", len |-> n, value |-> BlankRecord]

\* bool(v), the test of `if cached:`
Truth(v) == v.type # "NoneType" /\ v.len > 0

\* JSON text of an object: members as written by json.dump
BlankJson ==
    [name |-> <<>>, status |-> <<>>, has_error |-> "", body |-> <<>>,
     data |-> {}, includes |-> <<>>, cauldron_version |-> <<>>]

JsonString(s) == <<"\"", s, "\"">>

JsonOfRecord(rec) ==
    [name |-> JsonString(rec.name),
     status |-> rec.status,
     has_error |-> IF rec.has_error THEN "true" ELSE "false",
     body |-> IF rec.body = None THEN <<"null">> ELSE JsonString(rec.body[1]),
     data |-> {<<k, rec.data[k]>> : k \in DOMAIN rec.data},
     includes |-> rec.includes,
     cauldron_version |-> rec.cauldron_version]

RecordOfJson(j) ==
    [name |-> j.name[2],
     status |-> j.status,
     has_error |-> (j.has_error = "true"),
     body |-> IF j.body = <<"null">> THEN None ELSE <<j.body[2]>>,
     data |-> [k \in {m[1] : m \in j.data} |->
                  (CHOOSE m \in j.data : m[1] = k)[2]],
     includes |-> j.includes,
     cauldron_version |-> j.cauldron_version]

\* Contents of a file that may hold JSON
Absent == [kind |-> "absent", n |-> 0, obj |-> BlankJson]

Garbage == [kind |-> "garbage", n |-> 0, obj |-> BlankJson]

JsonArray(n) == [kind |-> "array", n |-> n, obj |-> BlankJson]

\* json.dump(data, f)
json_dump(v) ==
    CASE v.type = "dict" -> [kind |-> "object", n |-> v.len,
                             obj |-> JsonOfRecord(v.value)]
      [] v.type = "list" -> JsonArray(v.len)
      [] OTHER -> [kind |-> "null", n |-> 0, obj |-> BlankJson]

\* json.load(f): raised is TRUE when the text is no JSON
json_load(f) ==
    CASE f.kind = "object" ->
            [raised |-> FALSE, value |-> PyDict(RecordOfJson(f.obj))]
      [] f.kind = "array" -> [raised |-> FALSE, value |-> PyList(f.n)]
      [] f.kind = "null" -> [raised |-> FALSE, value |-> PyNone]
      [] OTHER -> [raised |-> TRUE, value |-> PyNone]

----------------------------------------------------------------------------
(* The running call: the output tree it works on, whether it has raised,   *)
(* the entries it has written so far in order, the library handlers it has *)
(* run so far in order, and the libraries its warnings have named.         *)

Machine(fs) ==
    [out |-> fs, raised |-> FALSE, wlog |-> <<>>, handled |-> <<>>,
     logged |-> <<>>]

Raise(m) == [m EXCEPT !.raised = TRUE]

Range(f) == {f[i] : i \in DOMAIN f}

\* the directory of file_path is created when it does not exist
EnsureDir(m, k) ==
    IF exists(m.out, k) THEN m ELSE [m EXCEPT !.out = makedirs(@, k)]

\* open(file_path, 'w+') and write: open raises on a directory
PutAt(m, k, contents) ==
    IF isdir(m.out, k) THEN Raise(m)
    ELSE [m EXCEPT !.out = write(@, k, contents), !.wlog = Append(@, k)]

\* one entry of write_files / copy_files
PutFile(m, filename, contents) ==
    PutAt(EnsureDir(m, OutKey(dirname(PathJoin(OutputDirectory, filename)))),
          OutKey(PathJoin(OutputDirectory, filename)),
          contents)

\* file_writes is the dict in insertion order: <<filename, contents>> pairs
RECURSIVE write_files(_, _)
write_files(file_writes, m) ==
    IF file_writes = <<>> \/ m.raised THEN m
    ELSE write_files(Tail(file_writes),
                     PutFile(m, Head(file_writes)[1], Head(file_writes)[2]))

\* file_copies pairs a filename with the contents of its source file
RECURSIVE copy_files(_, _)
copy_files(file_copies, m) ==
    IF file_copies = <<>> \/ m.raised THEN m
    ELSE copy_files(Tail(file_copies),
                    PutFile(m, Head(file_copies)[1], Head(file_copies)[2]))

----------------------------------------------------------------------------
(* add_web_includes *)

OutPaths(found) == [i \in 1..Len(found) |-> OutPath(found[i])]

\* glob.iglob(os.path.join(item_path, '**', '*'), recursive=True): every
\* entry below item_path, files and directories alike, as path strings
iglob(fs, k) == OutPaths(Listing(Below(fs, k)))

ProjectInclude(url) == [src |-> url, name |-> <<":project:">> \o url]

\* the url of a globbed entry
EntryUrl(entry) ==
    Replace(SliceFrom(entry, Len(OutputDirectory)), "\\", "/")

EntryUrls(entries) == [i \in 1..Len(entries) |-> EntryUrl(entries[i])]

\* the url of an included file
ItemUrl(item) == <<"/">> \o Replace(item, "\\", "/")

\* the directory has been copied: one url per globbed entry
IncludeCopied(m, fs2, item_key, web_includes) ==
    [m |-> [m EXCEPT !.out = fs2,
                     !.wlog = @ \o <<item_key>>
                                \o Listing(Below(fs2, item_key))],
     urls |-> web_includes \o EntryUrls(iglob(fs2, item_key))]

\* shutil.copytree raises when item_path exists
IncludeDirectory(m, source_key, item_key, web_includes) ==
    IF exists(m.out, item_key)
    THEN [m |-> Raise(m), urls |-> web_includes]
    ELSE IncludeCopied(m, copytree(SourceTree, source_key, m.out, item_key),
                       item_key, web_includes)

\* shutil.copy2
IncludeFile(m, item, source_key, item_key, web_includes) ==
    [m |-> [m EXCEPT !.out = write(@, item_key, SourceTree[source_key]),
                     !.wlog = Append(@, item_key)],
     urls |-> Append(web_includes, ItemUrl(item))]

\* the body of the loop over include_paths for one item
IncludeItem(item, m, web_includes) ==
    IF ~exists(SourceTree, Key(item))
    THEN [m |-> m, urls |-> web_includes]
    ELSE IF isdir(SourceTree, Key(item))
    THEN IncludeDirectory(
             EnsureDir(m, OutKey(dirname(PathJoin(OutputDirectory, item)))),
             Key(item), OutKey(PathJoin(OutputDirectory, item)), web_includes)
    ELSE IncludeFile(
             EnsureDir(m, OutKey(dirname(PathJoin(OutputDirectory, item)))),
             item, Key(item), OutKey(PathJoin(OutputDirectory, item)),
             web_includes)

RECURSIVE IncludeLoop(_, _, _)
IncludeRest(rest, r) == IncludeLoop(rest, r.m, r.urls)

IncludeLoop(include_paths, m, web_includes) ==
    IF include_paths = <<>> \/ m.raised
    THEN [m |-> m, urls |-> web_includes]
    ELSE IncludeRest(Tail(include_paths),
                     IncludeItem(Head(include_paths), m, web_includes))

\* the list comprehension that ends add_web_includes
AsIncludes(r) ==
    [m |-> r.m,
     ret |-> [i \in 1..Len(r.urls) |-> ProjectInclude(r.urls[i])]]

add_web_includes(include_paths, m) ==
    AsIncludes(IncludeLoop(include_paths, m, <<>>))

----------------------------------------------------------------------------
(* Library components *)

\* environ.log of the warning that the library is not installed
Warn(m, lib_name) == [m EXCEPT !.logged = Append(@, lib_name)]

\* add_bokeh: nothing when the import fails, a warning and nothing when the
\* imported locator is None; else the combined css and js
add_bokeh(m) ==
    IF "bokeh" \notin available THEN [m |-> m, ret |-> <<>>]
    ELSE IF "bokeh" \in hollow THEN [m |-> Warn(m, "bokeh"), ret |-> <<>>]
    ELSE [m |-> write_files(
                  << <<(<<"bokeh", os_sep, "bokeh", ".", "css">>), "bokeh.css">>,
                     <<(<<"bokeh", os_sep, "bokeh", ".", "js">>), "bokeh.js">> >>,
                  m),
          ret |-> << [name |-> <<"bokeh-css">>,
                      src |-> <<"/", "bokeh", "/", "bokeh", ".", "css">>],
                     [name |-> <<"bokeh-js">>,
                      src |-> <<"/", "bokeh", "/", "bokeh", ".", "js">>] >>]

PlotlySavePath ==
    <<"components", "/", "plotly", "/", "plotly", ".", "min", ".", "js">>

\* add_plotly: nothing when the import fails, a warning and nothing when the
\* imported module is None; else a copy of plotly.min.js
add_plotly(m) ==
    IF "plotly" \notin available THEN [m |-> m, ret |-> <<>>]
    ELSE IF "plotly" \in hollow THEN [m |-> Warn(m, "plotly"), ret |-> <<>>]
    ELSE [m |-> copy_files(<< <<PlotlySavePath, "plotly.min.js">> >>, m),
          ret |-> << [name |-> <<"plotly">>,
                      src |-> <<"/">> \o PlotlySavePath] >>]

\* the include of one file of a bundled component; slug is the path of the
\* file with the component directory cut off its front
ComponentInclude(name, slug) ==
    [name |-> <<"components", "-", name, "-">> \o
              Replace(Replace(Strip(slug, "/"), "/", "_"), ".", "_"),
     src |-> <<":", "components", "/", name>> \o slug]

\* the path string glob gives for an entry of the bundled components
ComponentPath(k) == <<"<components>", os_sep>> \o Replace(k, "/", os_sep)

\* the files add_global_component keeps: files ending in .css or .js
KeptFile(k) ==
    /\ isfile(ResourceTree, k)
    /\ \/ EndsWith(ComponentPath(k), <<".", "css">>)
       \/ EndsWith(ComponentPath(k), <<".", "js">>)

ComponentIncludes(name, kept) ==
    [i \in 1..Len(kept) |->
        ComponentInclude(name,
            SliceFrom(ComponentPath(kept[i]), Len(ResourcesPath(name))))]

\* add_global_component: one include per .css or .js file of the bundled
\* component directory, nothing when there is no such directory
add_global_component(name) ==
    IF ~exists(ResourceTree, <<name>>) THEN <<>>
    ELSE ComponentIncludes(name,
             SelectSeq(Listing(Below(ResourceTree, <<name>>)), KeptFile))

\* add_components looping over the list itself instead of set(...)
LibraryNames_list(library_includes) == library_includes

\* the names the loop of add_components visits: set(library_includes)
LibraryNames(library_includes) == Listing(Range(library_includes))

\* add_components raising for a name that has no component directory
Handle_strict(lib_name, m) ==
    CASE lib_name = "bokeh" -> add_bokeh(m)
      [] lib_name = "plotly" -> add_plotly(m)
      [] OTHER -> IF exists(ResourceTree, <<lib_name>>)
                  THEN [m |-> m, ret |-> add_global_component(lib_name)]
                  ELSE [m |-> Raise(m), ret |-> <<>>]

\* the dispatch on lib_name
Handle(lib_name, m) ==
    CASE lib_name = "bokeh" -> add_bokeh(m)
      [] lib_name = "plotly" -> add_plotly(m)
      [] OTHER -> [m |-> m, ret |-> add_global_component(lib_name)]

RECURSIVE ComponentLoop(_, _, _)
ComponentRest(rest, web_includes, r) ==
    ComponentLoop(rest, r.m, web_includes \o r.ret)

ComponentLoop(names, m, web_includes) ==
    IF names = <<>> \/ m.raised THEN [m |-> m, ret |-> web_includes]
    ELSE ComponentRest(Tail(names), web_includes,
             Handle(Head(names),
                    [m EXCEPT !.handled = Append(@, Head(names))]))

add_components(st, m) ==
    ComponentLoop(LibraryNames(st.library_includes), m, <<>>)

----------------------------------------------------------------------------
(* Step records and the step cache *)

create_step_data(name) ==
    [name |-> name, status |-> StatusOf(name), has_error |-> FALSE,
     body |-> None, data |-> NoData, includes |-> <<>>,
     cauldron_version |-> VersionInfo]

\* get_step_dom without its test of is_running
get_step_dom_stored(name, st) ==
    IF st.dom = None THEN Dumps(name) ELSE st.dom[1]

get_step_dom(name, st) ==
    IF st.dom = None \/ st.is_running THEN Dumps(name) ELSE st.dom[1]

\* dict.update
Update(d, e) ==
    [k \in DOMAIN d \cup DOMAIN e |-> IF k \in DOMAIN e THEN e[k] ELSE d[k]]

\* the record once the web includes w and the components c are resolved
Composed(name, st, w, c) ==
    [m |-> c.m,
     ret |-> [create_step_data(name) EXCEPT
                 !.has_error = st.error,
                 !.body = <<get_step_dom(name, st)>>,
                 !.data = Update(@, st.data),
                 !.includes = @ \o w.ret \o c.ret]]

\* add_components is not reached when add_web_includes has raised
ComposeComponents(name, st, w) ==
    Composed(name, st, w,
             IF w.m.raised THEN [m |-> w.m, ret |-> <<>>]
             ELSE add_components(st, w.m))

populate_step_data(name, st, m) ==
    ComposeComponents(name, st, add_web_includes(st.web_includes, m))

\* json.load caught by `except Exception: return None`
Caught(loaded) ==
    IF loaded.raised THEN [raised |-> FALSE, value |-> PyNone] ELSE loaded

\* get_cached_step_data with the test of os.path.exists inverted
get_cached_step_data_inverted(file) ==
    IF file.kind # "absent" THEN [raised |-> FALSE, value |-> PyNone]
    ELSE Caught(json_load(file))

\* get_cached_step_data without its try/except
get_cached_step_data_uncaught(file) ==
    IF file.kind = "absent" THEN [raised |-> FALSE, value |-> PyNone]
    ELSE json_load(file)

\* get_cached_step_data: raised tells whether an exception leaves the function
get_cached_step_data(file) ==
    IF file.kind = "absent" THEN [raised |-> FALSE, value |-> PyNone]
    ELSE Caught(json_load(file))

\* write_step_cache with the test of cache_path inverted
write_step_cache_skipped(cache_path, file, data) ==
    IF cache_path # <<>> THEN file ELSE json_dump(PyDict(data))

\* write_step_cache: the new content of the file at cache_path
write_step_cache(cache_path, file, data) ==
    IF cache_path = <<>> THEN file ELSE json_dump(PyDict(data))

\* step.report.results_cache_path
CachePath(name) == <<"<results_path>", ".cache", name>>

\* disable_caching with `and` in place of `or`
disable_caching_and(st) == st.last_modified /\ st.error

disable_caching(st) == st.last_modified \/ st.error

----------------------------------------------------------------------------
(* write_step *)

\* What a call of write_step did: the cache file it found, whether it read
\* it, where it raised ("no" when it returned), whether it ran
\* populate_step_data, the entries it wrote, the library handlers it ran,
\* the libraries its warnings named, whether the output tree differs after
\* the call, whether it wrote the cache file, and the value it returned.
Observation(name, file) ==
    [name |-> name, before |-> file, read |-> FALSE, raised |-> "no",
     populated |-> FALSE, wlog |-> <<>>, handled |-> <<>>,
     logged |-> <<>>, changed |-> FALSE, cache_written |-> FALSE, ret |-> PyNone]

\* a return of write_step that leaves the tree and the cache file alone
Returned(fs, file, obs, value) ==
    [out |-> fs, file |-> file, obs |-> [obs EXCEPT !.ret = value]]

\* lines 138-142 with populate_step_data at p and write_files at f
Written(name, fs, file, obs, p, f, value) ==
    IF f.raised
    THEN [out |-> f.out, file |-> file,
          obs |-> [obs EXCEPT !.populated = TRUE, !.wlog = f.wlog,
                              !.handled = f.handled,
                              !.logged = f.logged,
                              !.changed = (f.out # fs),
                              !.raised = "compose"]]
    ELSE [out |-> f.out,
          file |-> write_step_cache(CachePath(name), file, p.ret),
          obs |-> [obs EXCEPT !.populated = TRUE, !.wlog = f.wlog,
                              !.handled = f.handled,
                              !.logged = f.logged,
                              !.changed = (f.out # fs),
                              !.cache_written = (CachePath(name) # <<>>),
                              !.ret = value]]

\* write_files is not reached when populate_step_data has raised
Compose(name, st, fs, file, obs, p) ==
    Written(name, fs, file, obs, p,
            IF p.m.raised THEN p.m ELSE write_files(st.files, p.m),
            PyDict(p.ret))

\* the cache lookup of line 131
Lookup(st, file) ==
    IF disable_caching(st) THEN [raised |-> FALSE, value |-> PyNone]
    ELSE get_cached_step_data(file)

\* write_step without its test of is_muted
MutedReturn_never(st) == FALSE

\* the test `if step.is_muted` that returns the blank record
MutedReturn(st) == st.is_muted

\* lines 132-142, with the outcome of the lookup at got
Dispatch(name, st, fs, file, obs, got) ==
    IF got.raised
    THEN [out |-> fs, file |-> file, obs |-> [obs EXCEPT !.raised = "cache"]]
    ELSE IF Truth(got.value) THEN Returned(fs, file, obs, got.value)
    ELSE IF MutedReturn(st)
    THEN Returned(fs, file, obs, PyDict(create_step_data(name)))
    ELSE Compose(name, st, fs, file, obs,
                 populate_step_data(name, st, Machine(fs)))

write_step(name, fs, file) ==
    Dispatch(name, step[name], fs, file,
        [Observation(name, file) EXCEPT
            !.read = ~disable_caching(step[name])],
        Lookup(step[name], file))

----------------------------------------------------------------------------
(* write_project *)

\* environ.systems.remove(path): the tree is gone afterwards
systems_remove(fs) == EmptyFS

\* write_project without the removal of the output directory
ClearOutput_keep(fs) == makedirs(fs, <<>>)

\* the output directory removed and made again
ClearOutput(fs) == makedirs(systems_remove(fs), <<>>)

\* write_project walking project.steps from its end
StepOrder_reversed(project_steps) ==
    [i \in 1..Len(project_steps) |->
        project_steps[Len(project_steps) - i + 1]]

\* the order of `for step in project.steps`
StepOrder(project_steps) == project_steps

\* steps.append(write_step(step)), with the outcome of the call at r
StepDone(acc, name, r) ==
    [out |-> r.out,
     cache |-> [acc.cache EXCEPT ![name] = r.file],
     calls |-> Append(acc.calls, r.obs),
     steps |-> IF r.obs.raised # "no" THEN acc.steps
               ELSE Append(acc.steps, r.obs.ret),
     raised |-> r.obs.raised # "no"]

RECURSIVE StepLoop(_, _)
StepLoop(names, acc) ==
    IF names = <<>> \/ acc.raised THEN acc
    ELSE StepLoop(Tail(names),
             StepDone(acc, Head(names),
                 write_step(Head(names), acc.out, acc.cache[Head(names)])))

\* the assets directory has been copied
AssetsCopied(m, fs2) ==
    [m EXCEPT !.out = fs2,
              !.wlog = @ \o <<(<<"assets">>)>>
                         \o Listing(Below(fs2, <<"assets">>))]

\* copy_assets
copy_assets(m) ==
    IF ~exists(SourceTree, <<"assets">>) THEN m
    ELSE IF exists(m.out, <<"assets">>) THEN Raise(m)
    ELSE AssetsCopied(m, copytree(SourceTree, <<"assets">>, m.out, <<"assets">>))

\* the comment of the template that marks where the export script goes
ExportMarker == "<!-- CAULDRON:EXPORT -->"

\* project.html under the results path: a page with the marker comment once
Template == <<"<html>", "<body>", ExportMarker, "</body>", "</html>">>

\* the script block formatted with the project's uuid and the version
ExportScript(uuid, version) ==
    <<"<script>",
      "window.RESULTS_FILENAME = 'reports/", uuid, "/latest/results.js';",
      "window.PROJECT_ID = '", uuid, "';",
      "window.CAULDRON_VERSION = '", version, "';",
      "</script>">>

\* str.replace(old, new) for a one-token old and a new of several tokens
RECURSIVE Splice(_, _, _)
Splice(s, old, new) ==
    IF s = <<>> THEN <<>>
    ELSE (IF Head(s) = old THEN new ELSE <<Head(s)>>)
             \o Splice(Tail(s), old, new)

\* write_baked_html_file writing the template as it read it
write_baked_html_file_raw == [present |-> TRUE, dom |-> Template]

\* write_baked_html_file: the marker of the template replaced by the script
\* block that carries the project's uuid and the version, written to
\* display.html
write_baked_html_file ==
    [present |-> TRUE,
     dom |-> Splice(Template, ExportMarker,
                    ExportScript(ProjectUuid, Version))]

NoDisplay == [present |-> FALSE, dom |-> <<>>]

NoResults == [present |-> FALSE, steps |-> <<>>, includes |-> <<>>]

\* the entries the write_step calls wrote
StepEntries(calls) == UNION {Range(calls[i].wlog) : i \in DOMAIN calls}

\* the DATA of the results document: json.dumps of the records
Document(w, l) ==
    [present |-> TRUE,
     steps |-> [i \in 1..Len(l.steps) |-> json_dump(l.steps[i])],
     includes |-> w.ret]

\* lines 220-226, with the outcome of copy_assets at a
Finished(w, l, a) ==
    [out |-> a.out, cache |-> l.cache, results |-> Document(w, l),
     display |-> IF a.raised THEN display ELSE write_baked_html_file,
     raised |-> a.raised, calls |-> l.calls,
     emitted |-> Range(w.m.wlog) \cup Range(a.wlog) \cup StepEntries(l.calls)]

\* lines 208-226, with the outcome of the loop over the steps at l
AfterSteps(w, l) ==
    IF l.raised
    THEN [out |-> l.out, cache |-> l.cache, results |-> NoResults,
          display |-> display, raised |-> TRUE, calls |-> l.calls,
          emitted |-> Range(w.m.wlog) \cup StepEntries(l.calls)]
    ELSE Finished(w, l,
             copy_assets([Machine(write(l.out, ResultsKey, "results.js"))
                             EXCEPT !.wlog = <<ResultsKey>>]))

\* lines 204-226, with the outcome of add_web_includes at w
AfterIncludes(caches, w) ==
    AfterSteps(w,
        IF w.m.raised
        THEN [out |-> w.m.out, cache |-> caches, calls |-> <<>>,
              steps |-> <<>>, raised |-> TRUE]
        ELSE StepLoop(StepOrder(steps),
                 [out |-> w.m.out, cache |-> caches, calls |-> <<>>,
                  steps |-> <<>>, raised |-> FALSE]))

\* the whole of write_project, from the tree and the caches it finds
write_project(fs, caches) ==
    AfterIncludes(caches, add_web_includes(settings, Machine(ClearOutput(fs))))

----------------------------------------------------------------------------
(* The project under export *)

Repeat(x, n) == [i \in 1..n |-> x]

\* The reports of the two steps, as the execution engine left them
ReportOf(name) ==
    IF name = "A"
    THEN [web_includes |-> << <<"lib", ".", "js">> >>,
          files |-> << <<(<<"A", ".", "txt">>), "A.txt">> >>,
          library_includes |-> <<"bokeh", "widget">>
                               \o Repeat("bokeh", MaxRepeats - 1),
          data |-> [x |-> 1],
          dom |-> <<"dom">>]
    ELSE [web_includes |-> << <<"inc">> >>,
          files |-> << <<(<<"B", "/", "out", ".", "txt">>), "out.txt">> >>,
          library_includes |-> <<"doesnotexist">>
                               \o Repeat("plotly", MaxRepeats),
          data |-> NoData,
          dom |-> None]

StepObject(name, modified, error, muted) ==
    [last_modified |-> modified, error |-> error, is_muted |-> muted,
     is_running |-> FALSE,
     dom |-> ReportOf(name).dom,
     web_includes |-> ReportOf(name).web_includes,
     files |-> ReportOf(name).files,
     library_includes |-> ReportOf(name).library_includes,
     data |-> ReportOf(name).data]

\* the step objects the engine can hand over, running or not
StepObjects(name) ==
    {[StepObject(name, f[1], f[2], f[3]) EXCEPT !.is_running = f[4]] :
        f \in BOOLEAN \X BOOLEAN \X BOOLEAN \X BOOLEAN}

\* The cache file an earlier session left for the step: the record write_step
\* cached when the step had rendered another body and asked for no includes
OldCache(name) ==
    json_dump(PyDict([create_step_data(name) EXCEPT
                         !.body = <<"old">>,
                         !.data = ReportOf(name).data]))

CacheFiles(name) == {Absent, Garbage, JsonArray(1), OldCache(name)}

\* A step the engine has run and left alone, with no cache file yet
Settled(name) == StepObject(name, FALSE, FALSE, FALSE)

NoCall ==
    [op |-> "none", raised |-> FALSE, calls |-> <<>>, emitted |-> {},
     found |-> {}, has_prev |-> FALSE, prev |-> <<>>]

Init ==
    /\ os_sep \in {"/", "\\"}
    /\ available \in {{}, {"bokeh", "plotly"}}
    /\ hollow \in {{}, available}
    /\ settings \in {<<>>, << <<"inc">> >>}
    /\ steps \in {<<"A", "B">>, <<"B", "A">>}
    /\ \E focus \in StepNames :
       \E object \in StepObjects(focus), file \in CacheFiles(focus) :
       \E muted \in BOOLEAN :
          /\ step = [n \in StepNames |->
                        IF n = focus THEN object
                        ELSE [Settled(n) EXCEPT !.is_muted = muted]]
          /\ cache = [n \in StepNames |->
                        IF n = focus THEN file ELSE Absent]
    /\ out = EmptyFS
    /\ results = NoResults
    /\ display = NoDisplay
    /\ last = NoCall

\* the values the calls of the observed operation returned, in call order
Returns(calls) == [i \in 1..Len(calls) |-> calls[i].ret]

\* the state after a call of write_step that came out as r
WriteStepDone(r) ==
    /\ out' = r.out
    /\ cache' = [cache EXCEPT ![r.obs.name] = r.file]
    /\ last' = [op |-> "write_step", raised |-> r.obs.raised # "no",
                calls |-> <<r.obs>>, emitted |-> Range(r.obs.wlog),
                found |-> DOMAIN out, has_prev |-> FALSE, prev |-> <<>>]
    /\ UNCHANGED <<os_sep, available, hollow, settings, steps, step,
                   results, display>>

\* A caller outside this module (the step runner) writes one step
WriteStep(name) == WriteStepDone(write_step(name, out, cache[name]))

\* the state after a call of write_project that came out as r
WriteProjectDone(r) ==
    /\ out' = r.out
    /\ cache' = r.cache
    /\ results' = r.results
    /\ display' = r.display
    /\ last' = [op |-> "write_project", raised |-> r.raised,
                calls |-> r.calls, emitted |-> r.emitted,
                found |-> DOMAIN out,
                has_prev |-> (last.op = "write_project" /\ ~last.raised),
                prev |-> IF last.op = "write_project" /\ ~last.raised
                         THEN Returns(last.calls) ELSE <<>>]
    /\ UNCHANGED <<os_sep, available, hollow, settings, steps, step>>

\* project.write()
WriteProject == WriteProjectDone(write_project(out, cache))

Next ==
    \/ \E name \in StepNames : WriteStep(name)
    \/ WriteProject

Spec == Init /\ [][Next]_vars

----------------------------------------------------------------------------
(* The claims.  Calls(P) holds when P holds of every write_step call of the *)
(* most recent operation, made on its own or inside write_project; the     *)
(* flags of a step are those of step[c.name], for no call changes them.    *)

Unflagged(c) == ~step[c.name].last_modified /\ ~step[c.name].error

Muted(c) == step[c.name].is_muted

\* the file holds a serialised record
HoldsRecord(file) == file.kind = "object"

\* body = None, has_error = False, data = {}, includes = []
IsSkeleton(v) ==
    /\ v.type = "dict"
    /\ v.value.body = None
    /\ v.value.has_error = FALSE
    /\ v.value.data = NoData
    /\ v.value.includes = <<>>

\* the record is the one composed from the step as it is now
IsFresh(c) ==
    /\ c.populated
    /\ c.ret.type = "dict"
    /\ c.ret.value.body = <<get_step_dom(c.name, step[c.name])>>
    /\ c.ret.value.has_error = step[c.name].error
    /\ c.cache_written
    /\ cache[c.name] = json_dump(c.ret)

NoDuplicates(seq) ==
    \A i, j \in DOMAIN seq : seq[i] = seq[j] => i = j

\* C1: a step that is neither modified nor in error and whose cache file
\* holds a record gets exactly that record back: the call returns, what it
\* returns serialises to the very content of the file, populate_step_data is
\* not run, nothing is written to the output tree and the cache file is not
\* rewritten.
C1_CacheHit ==
    \A i \in DOMAIN last.calls :
        LET c == last.calls[i]
        IN  (Unflagged(c) /\ HoldsRecord(c.before)) =>
                /\ c.raised = "no"
                /\ c.read
                /\ json_dump(c.ret) = c.before
                /\ ~c.populated
                /\ c.wlog = <<>>
                /\ ~c.changed
                /\ ~c.cache_written
                /\ cache[c.name] = c.before

C1_Witness ==
    \E i \in DOMAIN last.calls :
        LET c == last.calls[i]
        IN  /\ Unflagged(c) /\ HoldsRecord(c.before) /\ ~Muted(c)
            /\ c.ret.type = "dict"
            /\ c.ret.value.body = <<"old">>
            /\ step[c.name].files # <<>>

\* C2: a step that is modified or in error never has its cache file read,
\* and when the call returns it returns a freshly built record: the
\* skeleton for a muted step, the record composed by populate_step_data
\* otherwise, even when the cache file holds a record.
C2_Bypass ==
    \A i \in DOMAIN last.calls :
        LET c == last.calls[i]
        IN  ~Unflagged(c) =>
                /\ ~c.read
                /\ c.raised # "cache"
                /\ (c.raised = "no" /\ Muted(c)) =>
                       ~c.populated /\ c.ret = PyDict(create_step_data(c.name))
                /\ (c.raised = "no" /\ ~Muted(c)) => IsFresh(c)

C2_Witness ==
    \E i \in DOMAIN last.calls :
        LET c == last.calls[i]
        IN  /\ ~Unflagged(c) /\ ~Muted(c) /\ HoldsRecord(c.before)
            /\ c.raised = "no"
            /\ c.populated
            /\ json_dump(c.ret) # c.before

\* C3: a muted step gets the skeleton record back whatever its flags and
\* whatever its cache file holds.
C3_MutedSkeleton ==
    \A i \in DOMAIN last.calls :
        LET c == last.calls[i]
        IN  (Muted(c) /\ c.raised = "no") => IsSkeleton(c.ret)

\* C4: a call for a muted step leaves the file system as it found it: no
\* entry written to the output tree, no library handler run, the output
\* tree the same after the call as before it, the cache file neither
\* created nor changed.
C4_MutedWritesNothing ==
    \A i \in DOMAIN last.calls :
        LET c == last.calls[i]
        IN  Muted(c) =>
                /\ c.raised = "no"
                /\ ~c.populated
                /\ c.wlog = <<>>
                /\ c.handled = <<>>
                /\ ~c.changed
                /\ ~c.cache_written
                /\ cache[c.name] = c.before

C4_Witness ==
    \E i \in DOMAIN last.calls :
        LET c == last.calls[i]
        IN  /\ Muted(c) /\ ~HoldsRecord(c.before)
            /\ step[c.name].files # <<>>
            /\ step[c.name].library_includes # <<>>
            /\ IsSkeleton(c.ret)
            /\ last.op = "write_project"

\* C5: after write_project the output directory holds only what this call
\* emitted: every entry is the directory itself, an entry the call wrote,
\* or a directory on the way to one; nothing that only an earlier call wrote
\* is left.
C5_OnlyLatestWrite ==
    last.op = "write_project" =>
        \A k \in DOMAIN out :
            \/ k = <<>>
            \/ k \in last.emitted
            \/ \E e \in last.emitted : k \in Ancestors(e)

C5_Witness ==
    /\ last.op = "write_project"
    /\ \E k \in last.found : k # <<>> /\ k \notin DOMAIN out

\* C6: write_project calls write_step on the steps in the order of
\* project.steps, one call per step, and entry i of the 'steps' array of the
\* results document is the record the call for step i of project.steps
\* returned.
C6_StepOrder ==
    last.op = "write_project" =>
        /\ Len(last.calls) <= Len(steps)
        /\ \A i \in DOMAIN last.calls : last.calls[i].name = steps[i]
        /\ results.present =>
              /\ Len(last.calls) = Len(steps)
              /\ Len(results.steps) = Len(steps)
              /\ \A i \in DOMAIN steps :
                    results.steps[i] = json_dump(last.calls[i].ret)

C6_Witness ==
    /\ last.op = "write_project"
    /\ results.present
    /\ Len(results.steps) = Cardinality(StepNames)
    /\ results.steps[1] # results.steps[2]
    /\ steps[1] = "B"

\* C7: for a step that is neither modified nor in error and whose cache file
\* is absent or cannot be parsed, reading the cache raises nothing; the call
\* goes on to the muted check (the skeleton, nothing composed) and, for a
\* step that is not muted, to populate_step_data, and when that returns the
\* call returns the freshly composed record and has written it to the cache
\* file.
C7_SoftMiss ==
    \A i \in DOMAIN last.calls :
        LET c == last.calls[i]
        IN  (Unflagged(c) /\ c.before.kind \in {"absent", "garbage"}) =>
                /\ c.read
                /\ c.raised # "cache"
                /\ Muted(c) => c.raised = "no" /\ ~c.populated
                                /\ IsSkeleton(c.ret)
                /\ ~Muted(c) => c.populated
                /\ (~Muted(c) /\ c.raised = "no") => IsFresh(c)

C7_Witness ==
    \E i \in DOMAIN last.calls :
        LET c == last.calls[i]
        IN  /\ Unflagged(c) /\ c.before.kind = "garbage" /\ ~Muted(c)
            /\ c.raised = "no"
            /\ IsFresh(c)
            /\ HoldsRecord(cache[c.name])

\* C8: of two write_project calls in a row that both complete, on a project
\* whose steps are all neither modified nor in error, the second serves every
\* step that is not muted from its cache file, composing nothing, and gets
\* for every step a record equal to the one the first call got.
C8_SecondRunCached ==
    (/\ last.op = "write_project"
     /\ last.has_prev
     /\ ~last.raised
     /\ \A n \in StepNames : ~step[n].last_modified /\ ~step[n].error) =>
        /\ Len(last.calls) = Len(last.prev)
        /\ \A i \in DOMAIN last.calls :
              LET c == last.calls[i]
              IN  /\ c.ret = last.prev[i]
                  /\ ~Muted(c) => /\ ~c.populated
                                  /\ c.read
                                  /\ json_dump(c.ret) = c.before

C8_Witness ==
    /\ last.op = "write_project"
    /\ last.has_prev
    /\ ~last.raised
    /\ \A n \in StepNames :
          ~step[n].last_modified /\ ~step[n].error /\ ~step[n].is_muted
    /\ \A i \in DOMAIN last.calls :
          /\ last.calls[i].ret.type = "dict"
          /\ last.calls[i].ret.value.body # <<"old">>
          /\ last.calls[i].ret.value.includes # <<>>

\* the files of the source directory below an include directory
FilesBelow(item) ==
    {k \in Below(SourceTree, Key(item)) : isfile(SourceTree, k)}

\* the includes of the results document that lie below an include directory
IncludesBelow(item) ==
    {i \in DOMAIN results.includes :
        StartsWith(results.includes[i].src, <<"/">> \o item \o <<"/">>)}

\* C9: an include directory of the settings that holds N files, at any
\* depth, contributes exactly N WebIncludes, whose src holds no backslash.
C9_OnePerFile ==
    (last.op = "write_project" /\ results.present) =>
        \A item \in Range(settings) :
            isdir(SourceTree, Key(item)) =>
                /\ Cardinality(IncludesBelow(item))
                       = Cardinality(FilesBelow(item))
                /\ \A i \in IncludesBelow(item) :
                       "\\" \notin Range(results.includes[i].src)

\* C10: when populate_step_data has run for a step, add_components ran the
\* handler of each requested library name exactly once, however often the
\* name is listed; no two includes of the record have the same name and no
\* entry of the output tree was written twice.
C10_LibraryOnce ==
    \A i \in DOMAIN last.calls :
        LET c == last.calls[i]
        IN  (c.populated /\ c.raised = "no") =>
                /\ NoDuplicates(c.handled)
                /\ Range(c.handled) = Range(step[c.name].library_includes)
                /\ NoDuplicates([j \in DOMAIN c.ret.value.includes |->
                                    c.ret.value.includes[j].name])
                /\ NoDuplicates(c.wlog)

C10_Witness ==
    \E i \in DOMAIN last.calls :
        LET c == last.calls[i]
        IN  /\ c.populated /\ c.raised = "no"
            /\ ~NoDuplicates(step[c.name].library_includes)
            /\ "bokeh" \in Range(c.handled)
            /\ <<"bokeh", "/", "bokeh", ".", "js">> \in Range(c.wlog)
            /\ \E j \in DOMAIN c.ret.value.includes :
                  c.ret.value.includes[j].name = <<"bokeh-js">>

\* C11: write_project is not aborted by what happens while it resolves the
\* project-level web includes or obtains the step records: whatever the
\* settings and the steps include, also when two of them name the same
\* directory, the call does not raise and leaves a results document and a
\* baked display.html.
C11_NeverAborts ==
    last.op = "write_project" =>
        /\ ~last.raised
        /\ results.present
        /\ display.present

\* the optional libraries whose locator loads and can be used
Usable == available \ hollow

\* the includes of a returned record whose src names the library
IncludesOf(c, lib_name) ==
    {j \in DOMAIN c.ret.value.includes :
        lib_name \in Range(c.ret.value.includes[j].src)}

\* the entries a call wrote whose path names the library
WritesOf(c, lib_name) ==
    {j \in DOMAIN c.wlog : lib_name \in Range(c.wlog[j])}

\* the entry of the output directory a project-owned src refers to
UrlKey(src) == Tail(src)

\* C12: when a composed step asks for 'bokeh' or 'plotly' and the library is
\* usable, the record holds exactly two includes for it, one whose src ends
\* in .css and one whose src ends in .js, and each of the two points at a
\* file the call wrote into the output tree.
C12_CombinedPair ==
    \A i \in DOMAIN last.calls :
        LET c == last.calls[i]
        IN  (c.populated /\ c.raised = "no") =>
                \A lib_name \in Range(c.handled) \cap {"bokeh", "plotly"}
                                                 \cap Usable :
                    /\ Cardinality(IncludesOf(c, lib_name)) = 2
                    /\ \A ext \in {"css", "js"} :
                          \E j \in IncludesOf(c, lib_name) :
                              LET src == c.ret.value.includes[j].src
                              IN  /\ EndsWith(src, <<".", ext>>)
                                  /\ UrlKey(src) \in Range(c.wlog)
                                  /\ isfile(out, UrlKey(src))

\* C13: when a composed step asks for 'bokeh' or 'plotly' and the import of
\* the library fails, the call logs a warning that names the library, the
\* record holds no include for it, no entry is written for it and the call
\* returns.
C13_ImportFailureWarns ==
    \A i \in DOMAIN last.calls :
        LET c == last.calls[i]
        IN  (c.populated /\ c.raised = "no") =>
                \A lib_name \in (Range(c.handled) \cap {"bokeh", "plotly"})
                                    \ available :
                    /\ lib_name \in Range(c.logged)
                    /\ IncludesOf(c, lib_name) = {}
                    /\ WritesOf(c, lib_name) = {}

\* the names a step asks for that are neither 'bokeh' nor 'plotly' and have
\* no bundled component directory
MissingNames(st) ==
    {n \in Range(st.library_includes) \ {"bokeh", "plotly"} :
        ~exists(ResourceTree, <<n>>)}

\* C14: when populate_step_data runs for a step that asks for a name without
\* a bundled component directory, that name makes nothing raise: a call that
\* raises has done so before any library was handled; a call that returns
\* has handled every name the step asks for, holds no include and wrote no
\* entry for the missing name, and holds the includes of the names that have
\* something to contribute.
C14_MissingComponent ==
    \A i \in DOMAIN last.calls :
        LET c == last.calls[i]
        IN  (c.populated /\ MissingNames(step[c.name]) # {}) =>
                /\ c.raised = "compose" => c.handled = <<>>
                /\ c.raised = "no" =>
                      /\ Range(c.handled)
                             = Range(step[c.name].library_includes)
                      /\ \A n \in MissingNames(step[c.name]) :
                            /\ IncludesOf(c, n) = {}
                            /\ WritesOf(c, n) = {}
                      /\ \A n \in Range(step[c.name].library_includes) :
                            (n \in Usable \/ exists(ResourceTree, <<n>>))
                                => IncludesOf(c, n) # {}

C14_Witness ==
    \E i \in DOMAIN last.calls :
        LET c == last.calls[i]
        IN  /\ c.populated /\ c.raised = "no"
            /\ "doesnotexist" \in MissingNames(step[c.name])
            /\ "doesnotexist" \in Range(c.handled)
            /\ "plotly" \in Usable
            /\ IncludesOf(c, "plotly") # {}

\* C15: after a write_project that returns, display.html exists; its content
\* holds the project's uuid and the version string, no longer holds the
\* export marker, and is the template with the script block standing where
\* the marker stood.
C15_DisplayBaked ==
    (last.op = "write_project" /\ ~last.raised) =>
        /\ display.present
        /\ ProjectUuid \in Range(display.dom)
        /\ Version \in Range(display.dom)
        /\ ExportMarker \notin Range(display.dom)
        /\ \E i \in DOMAIN Template :
              /\ Template[i] = ExportMarker
              /\ display.dom =
                     SubSeq(Template, 1, i - 1)
                         \o ExportScript(ProjectUuid, Version)
                         \o SubSeq(Template, i + 1, Len(Template))

C15_Witness ==
    /\ last.op = "write_project"
    /\ ~last.raised
    /\ results.present
    /\ display.present
    /\ Len(display.dom) > Len(Template)

\* C16: a cache file whose content parses but is no step record, here a JSON
\* array, is a miss: for a step that is neither modified nor in error nor
\* muted the call composes, and when it returns it returns the freshly
\* composed record, not the content of the file.
C16_OnlyRecords ==
    \A i \in DOMAIN last.calls :
        LET c == last.calls[i]
        IN  (Unflagged(c) /\ ~Muted(c) /\ c.before.kind = "array") =>
                /\ c.populated
                /\ c.raised = "no" => IsFresh(c)

\* the include was resolved by this call: a project-owned one points at an
\* entry the call wrote, a shared one names a library the step asks for
ResolvedNow(c, include) ==
    \/ /\ Head(include.src) = "/"
       /\ UrlKey(include.src) \in Range(c.wlog)
    \/ /\ Head(include.src) = ":"
       /\ \E n \in Range(step[c.name].library_includes) :
             n \in Range(include.src)

\* C17: in a record composed by populate_step_data, body is the stored dom
\* when the step has one and is not running, and the fresh render of
\* step.dumps() otherwise; has_error is the step's error flag; data holds
\* the report's data and nothing else; every include was resolved by this
\* very call and none is listed twice.
C17_ComposedFields ==
    \A i \in DOMAIN last.calls :
        LET c == last.calls[i]
        IN  (c.populated /\ c.raised = "no") =>
                /\ c.ret.type = "dict"
                /\ (step[c.name].dom # None /\ ~step[c.name].is_running)
                       => c.ret.value.body = step[c.name].dom
                /\ (step[c.name].dom = None \/ step[c.name].is_running)
                       => c.ret.value.body = <<Dumps(c.name)>>
                /\ c.ret.value.has_error = step[c.name].error
                /\ c.ret.value.data = step[c.name].data
                /\ NoDuplicates(c.ret.value.includes)
                /\ \A j \in DOMAIN c.ret.value.includes :
                       ResolvedNow(c, c.ret.value.includes[j])

C17_Witness ==
    \E i \in DOMAIN last.calls :
        LET c == last.calls[i]
        IN  /\ c.populated /\ c.raised = "no"
            /\ step[c.name].dom # None
            /\ step[c.name].is_running
            /\ step[c.name].error
            /\ HoldsRecord(c.before)
            /\ c.ret.value.body = <<Dumps(c.name)>>
            /\ c.ret.value.has_error
            /\ c.ret.value.includes # <<>>

\* the entry of the output directory that a name of a files mapping goes to
FileKey(filename) == OutKey(PathJoin(OutputDirectory, filename))

\* C18: after a write_project that returns, every file of the report of
\* every step that is not muted stands in the output directory with the
\* contents the report asks for, whether the step was composed or served
\* from its cache file.
C18_ReportFilesExist ==
    (last.op = "write_project" /\ ~last.raised) =>
        \A n \in StepNames :
            ~step[n].is_muted =>
                \A j \in DOMAIN step[n].files :
                    /\ isfile(out, FileKey(step[n].files[j][1]))
                    /\ out[FileKey(step[n].files[j][1])] = step[n].files[j][2]

\* the project-owned includes of a list point at files of the output tree
PointAtFiles(includes) ==
    \A j \in DOMAIN includes :
        Head(includes[j].src) = "/" => isfile(out, UrlKey(includes[j].src))

\* C19: after a write_project that returns, every project-owned include of
\* the results document, in the project-level list and in every step
\* record, composed or served from the cache, points at a file that is in
\* the output directory.
C19_IncludesExist ==
    (last.op = "write_project" /\ ~last.raised) =>
        /\ PointAtFiles(results.includes)
        /\ \A i \in DOMAIN last.calls :
              last.calls[i].ret.type = "dict" =>
                  PointAtFiles(last.calls[i].ret.value.includes)

====
